---- MODULE Spec2Model ----
(***************************************************************************)
(* Model of the text-insight pipeline of python-task:                      *)
(*   - CosineSummariser   (src/DataScraper.py)                             *)
(*   - SentenceSummariser (src/DataScraper.py)                             *)
(*   - TextInsight.get    (src/DataScraper.py) with GoogleSearcher.search  *)
(*     (src/Searchers.py) and SimpleWebScraper.get_soup                    *)
(*                                                                         *)
(* A text is a sequence of tokens.  A soup is the sequence of tags that    *)
(* soup() (find_all) yields, each tag being its text.                      *)
(***************************************************************************)
EXTENDS Integers, Sequences, FiniteSets, TLC

VARIABLES
    \* ---- CosineSummariser instance ----
    tags,          \* self.tags: list of CosineTag, never cleared
    calls,         \* number of summarise calls made on the instance
    cdoc,          \* soup of the last call
    cquery,        \* query of the last call
    cout,          \* outcome of the last call
    pdoc,          \* soup of the call before the last
    pquery,        \* query of the call before the last
    pout,          \* outcome of the call before the last
    \* ---- TextInsight.get ----
    pc,            \* position inside get
    iquery,        \* the query argument of get
    urls,          \* searcher.urls
    ui,            \* number of urls the loop has completed
    soup,          \* soup of the url being processed
    summary_list,  \* the local summary_list
    fetched,       \* every url handed to get_soup, in order
    result,        \* what the caller of get receives
    errlog,        \* every exception raised inside get, in order
    \* ---- SentenceSummariser instance and its summarise call ----
    spc,           \* position inside summarise
    pre,           \* self.pre
    post,          \* self.pos (the local counter of summarise is pos)
    query_tokens,  \* query_tokens
    sentences,     \* sentences, each already split into its words
    si,            \* number of sentences the outer loop has completed
    words,         \* words of the sentence being scanned
    wi,            \* number of words of it the inner loop has completed
    pos,           \* the local counter pos
    summary,       \* self.summary, as the sequence of its tokens
    origin,        \* for each token of summary: <<sentence, index>> it was
                   \* copied from, index -1 for the marker
    startlen,      \* Len(summary) when the scan of the sentence began
    \* ---- compare_version_strings ----
    va,            \* version_str1, as the list split(sep) yields
    vb,            \* version_str2, as the list split(sep2 or sep) yields
    vres,          \* outcome of compare_version_strings(va, vb)
    vrev,          \* outcome of compare_version_strings(vb, va)
    \* ---- lines_overlap ----
    largs,         \* the arguments of the Line constructors, in call order
    lres           \* what lines_overlap returned for these lines

cosineVars  == <<tags, calls, cdoc, cquery, cout, pdoc, pquery, pout>>
insightVars == <<pc, iquery, urls, ui, soup, summary_list, fetched, result, errlog>>
sentenceVars == <<spc, pre, post, query_tokens, sentences, si, words, wi, pos,
                  summary, origin, startlen>>
utilVars == <<va, vb, vres, vrev, largs, lres>>
vars == <<cosineVars, insightVars, sentenceVars, utilVars>>

\* compare_version_strings and lines_overlap not called
UtilIdle ==
    /\ va = <<>>
    /\ vb = <<>>
    /\ vres = [kind |-> "none", val |-> 0]
    /\ vrev = [kind |-> "none", val |-> 0]
    /\ largs = <<>>
    /\ lres = "none"

Range(s) == {s[i] : i \in DOMAIN s}

\* Sequences over S of length at most n.
SeqUpTo(S, n) == UNION {[1..k -> S] : k \in 0..n}

--------------------------------------------------------------------------
(* Bounds *)
MaxTags  == 3     \* tags in self.tags of a CosineSummariser
MaxCalls == 2     \* summarise calls on one CosineSummariser instance
MaxUrls  == 3     \* urls a search leaves in searcher.urls
MaxWords == 4     \* words of a sentence
MaxTextWords == 5 \* words of a text
MaxPre   == 2     \* largest self.pre
MaxPost  == 2     \* largest self.pos
MaxComps == 2     \* components of a version string
MaxLines == 3     \* lines handed to lines_overlap
MaxCoord == 3     \* largest end point of a line

--------------------------------------------------------------------------
(* Texts *)

\* str.lower() on one token
Lower(tok) == IF tok = "Render" THEN "render" ELSE tok

\* str.lower() on a text
LowerText(text) == [i \in DOMAIN text |-> Lower(text[i])]

IsLetters(tok) == tok # "42"

\* CosineSummariser.preprocess: every non-letter becomes a blank and blanks
\* are collapsed, so only the letter words remain as words.
preprocess(text) == SelectSeq(text, IsLetters)

\* The tags a page can hold.  "42" stands for a run of non-letter
\* characters, "Render" for a word with an upper-case letter.
Segments ==
    { <<"web">>,
      <<"render">>,
      <<"render", "web">>,
      <<"Render", "42", "web">>,
      <<"42">> }

CosineQueries == { <<"render">>, <<"web", "Render">>, <<"zebra">> }

--------------------------------------------------------------------------
(* TfidfVectorizer(use_idf=False), linear_kernel, np.argmax *)

\* The analyzer of the vectorizer lower-cases and splits into words.
Analyze(text) == LowerText(text)

Count(t, text) == Cardinality({i \in DOMAIN text : text[i] = t})

\* vocabulary_ after fit: every term of the training data
Vocabulary(training_data) ==
    UNION {Range(Analyze(training_data[i])) : i \in DOMAIN training_data}

RECURSIVE SumOver(_, _)
SumOver(S, f) ==
    IF S = {} THEN 0
    ELSE LET t == CHOOSE x \in S : TRUE
         IN  f[t] + SumOver(S \ {t}, f)

\* A score is kept exact: the l2-normalised dot product dot/sqrt(n2) up to
\* the norm of the query vector, which is the same for every row.
Score(text, query, vocab) ==
    LET d == Analyze(text)
        q == Analyze(query)
        n == SumOver(vocab, [t \in vocab |-> Count(t, d) * Count(t, d)])
    IN  [dot |-> SumOver(vocab, [t \in vocab |-> Count(t, q) * Count(t, d)]),
         n2  |-> IF n = 0 THEN 1 ELSE n]

\* a > b as real numbers dot/sqrt(n2)
Greater(a, b) == a.dot * a.dot * b.n2 > b.dot * b.dot * a.n2

\* np.argmax: the first index holding the maximum (1-based here)
ArgMax(scores) ==
    CHOOSE i \in DOMAIN scores :
        /\ \A j \in DOMAIN scores : ~Greater(scores[j], scores[i])
        /\ \A j \in DOMAIN scores : j < i => Greater(scores[i], scores[j])

--------------------------------------------------------------------------
(* SentenceSummariser *)

\* The words nltk.word_tokenize yields for the lower-cased text.
DocWords == {"k", "x"}

Sentences == SeqUpTo(DocWords, MaxWords) \ {<<>>}

\* The texts of at most n words: their sentences, as sent_tokenize and
\* word_tokenize split them.
RECURSIVE TextsOf(_)
TextsOf(n) ==
    {<<>>} \cup UNION { {<<s>> \o t : t \in TextsOf(n - Len(s))} :
                          s \in {x \in Sentences : Len(x) <= n} }

Texts == TextsOf(MaxTextWords)

\* A query is a sequence of pieces: a word, or " " for a run of characters
\* that are not alphanumeric.
SentenceQueries == { <<"k">>, <<" ", "m", " ", "k">> }

IsAlnum(piece) == piece # " "

\* get_as_tokens: every run of non-alphanumerics becomes one blank, then
\* split(" "), which leaves "" for a blank at either end and for "".
get_as_tokens(text) ==
    IF text = <<>> THEN <<"">>
    ELSE (IF IsAlnum(text[1]) THEN <<>> ELSE <<"">>)
         \o SelectSeq(text, IsAlnum)
         \o (IF IsAlnum(text[Len(text)]) THEN <<>> ELSE <<"">>)

Marker == "[...]"

Max(a, b) == IF a >= b THEN a ELSE b

\* a mutant of WindowLo: range(max(i - count - 1, 0), i)
WindowLoSlip(count, i) == Max(i - count - 1, 0)

\* the first index of range(max(i - count, 0), i), 0-based
WindowLo(count, i) == Max(i - count, 0)

\* a mutant of add_retroactively: range(max(i - count, 0), i + 1)
add_retroactivelyIncl(st, count, tokens, s, i) ==
    LET lo == WindowLo(count, i)
        n  == i - lo + 1
    IN  [st EXCEPT
           !.summary = @ \o <<Marker>> \o [k \in 1..n |-> tokens[lo + k]],
           !.origin  = @ \o << <<s, -1>> >> \o [k \in 1..n |-> <<s, lo + k - 1>>]]

\* add_retroactively: the marker and the tokens of the range before tokens[i]
add_retroactively(st, count, tokens, s, i) ==
    LET lo == WindowLo(count, i)
        n  == i - lo
    IN  [st EXCEPT
           !.summary = @ \o <<Marker>> \o [k \in 1..n |-> tokens[lo + k]],
           !.origin  = @ \o << <<s, -1>> >> \o [k \in 1..n |-> <<s, lo + k - 1>>]]

\* self.summary += " " + word
AddWord(st, word, s, i) ==
    [st EXCEPT !.summary = Append(@, word), !.origin = Append(@, <<s, i>>)]

\* a mutant of Escalate: pos += self.pos * 2
EscalateSlip(c, p) == c + p * 2

\* pos += self.pos; pos *= 2
Escalate(c, p) == (c + p) * 2

\* a mutant of Decrement: pos -= 2
DecrementTwo(c) == c - 2

\* a mutant of Decrement: the counter is left as it is
DecrementNone(c) == c

\* pos -= 1
Decrement(c) == c - 1

\* a mutant of SentenceStartPos: pos is set once, before the sentence loop
SentenceStartPosCarry(c) == c

\* pos = 0 at the top of the body of the sentence loop
SentenceStartPos(c) == 0

\* The body of the word loop for the word at 0-based index i of sentence s;
\* st holds self.summary (with origin) and pos.
ScanWord(st, tokens, s, i, qt, count, p) ==
    LET word == tokens[i + 1]
    IN  IF word \in Range(qt)
        THEN IF st.pos = 0
             THEN AddWord([add_retroactively(st, count, tokens, s, i)
                              EXCEPT !.pos = p], word, s, i)
             ELSE AddWord([st EXCEPT !.pos = Escalate(st.pos, p)], word, s, i)
        ELSE IF st.pos > 0
             THEN AddWord([st EXCEPT !.pos = Decrement(st.pos)], word, s, i)
             ELSE st

\* The word loop over the words from index i on.
RECURSIVE ScanFrom(_, _, _, _, _, _, _)
ScanFrom(st, tokens, s, i, qt, count, p) ==
    IF i >= Len(tokens) THEN st
    ELSE ScanFrom(ScanWord(st, tokens, s, i, qt, count, p),
                  tokens, s, i + 1, qt, count, p)

\* The body of the sentence loop for one sentence, run as a whole.
ScanSentence(st, tokens, s, qt, count, p) ==
    ScanFrom([st EXCEPT !.pos = SentenceStartPos(st.pos)], tokens, s, 0, qt, count, p)

Current == [summary |-> summary, origin |-> origin, pos |-> pos]

\* summarise(soup, query): the text is tokenised, the query too
SCall ==
    /\ spc = "new"
    /\ \E text \in Texts, query \in SentenceQueries :
          /\ sentences' = text
          /\ query_tokens' = get_as_tokens(query)
    /\ si' = 0
    /\ spc' = "loop"
    /\ UNCHANGED <<pre, post, words, wi, pos, summary, origin, startlen>>
    /\ UNCHANGED <<cosineVars, insightVars, utilVars>>

\* for sentence in sentences: words = word_tokenize(sentence); pos = 0
SBeginSentence ==
    /\ spc = "loop"
    /\ si < Len(sentences)
    /\ words' = sentences[si + 1]
    /\ pos' = SentenceStartPos(pos)
    /\ wi' = 0
    /\ startlen' = Len(summary)
    /\ spc' = "scan"
    /\ UNCHANGED <<pre, post, query_tokens, sentences, si, summary, origin>>
    /\ UNCHANGED <<cosineVars, insightVars, utilVars>>

\* one pass through the body of the word loop
SStep ==
    /\ wi < Len(words)
    /\ LET st == ScanWord(Current, words, si, wi, query_tokens, pre, post)
       IN  /\ summary' = st.summary
           /\ origin' = st.origin
           /\ pos' = st.pos
    /\ wi' = wi + 1
    /\ UNCHANGED <<spc, pre, post, query_tokens, sentences, si, words, startlen>>
    /\ UNCHANGED <<cosineVars, insightVars, utilVars>>

IsMatch == wi < Len(words) /\ words[wi + 1] \in Range(query_tokens)

\* word in query_tokens, pos == 0
SMatchFirst == spc = "scan" /\ IsMatch /\ pos = 0 /\ SStep

\* word in query_tokens, pos != 0
SMatchInWindow == spc = "scan" /\ IsMatch /\ pos # 0 /\ SStep

\* word not in query_tokens, pos > 0
SAppendTrailing == spc = "scan" /\ wi < Len(words) /\ ~IsMatch /\ pos > 0 /\ SStep

\* word not in query_tokens, pos <= 0
SSkip == spc = "scan" /\ wi < Len(words) /\ ~IsMatch /\ ~(pos > 0) /\ SStep

\* the word loop is exhausted
SEndSentence ==
    /\ spc = "scan"
    /\ wi = Len(words)
    /\ si' = si + 1
    /\ spc' = "loop"
    /\ UNCHANGED <<pre, post, query_tokens, sentences, words, wi, pos, summary,
                   origin, startlen>>
    /\ UNCHANGED <<cosineVars, insightVars, utilVars>>

\* return self.summary
SReturn ==
    /\ spc = "loop"
    /\ si = Len(sentences)
    /\ spc' = "done"
    /\ UNCHANGED <<pre, post, query_tokens, sentences, si, words, wi, pos,
                   summary, origin, startlen>>
    /\ UNCHANGED <<cosineVars, insightVars, utilVars>>

\* SentenceSummariser.__init__ apart from pre and pos
SentenceNew ==
    /\ spc = "new"
    /\ query_tokens = <<>>
    /\ sentences = <<>>
    /\ si = 0
    /\ words = <<>>
    /\ wi = 0
    /\ pos = 0
    /\ summary = <<>>
    /\ origin = <<>>
    /\ startlen = 0

\* SentenceSummariser() with the default pre = 5, pos = 5
SentenceIdle == SentenceNew /\ pre = 5 /\ post = 5

--------------------------------------------------------------------------
(* CosineSummariser *)

CosineTag(original, preprocessed) ==
    [original |-> original, preprocessed |-> preprocessed]

NoOutcome  == [kind |-> "none",  val |-> <<>>]
Returned(v) == [kind |-> "ok",    val |-> v]
Raised(e)   == [kind |-> "error", val |-> <<e>>]

\* the loop of summarise that appends one CosineTag per tag of the soup
AppendTags(oldtags, s) ==
    oldtags \o [i \in DOMAIN s |-> CosineTag(s[i], preprocess(LowerText(s[i])))]

\* a mutant of Ranked: the corpus is the one left by the earlier calls
RankedStale(oldtags, newtags) == oldtags

\* the tags that are vectorised and ranked: self.tags after the loop
Ranked(oldtags, newtags) == newtags

\* CosineSummariser.summarise on an instance whose self.tags is oldtags.
\* fit_transform raises ValueError on an empty vocabulary.
summarise(oldtags, s, query) ==
    LET newtags       == AppendTags(oldtags, s)
        corpus        == Ranked(oldtags, newtags)
        training_data == [i \in DOMAIN corpus |-> corpus[i].preprocessed]
        vocab         == Vocabulary(training_data)
        scores        == [i \in DOMAIN corpus |->
                             Score(training_data[i], preprocess(query), vocab)]
    IN  [tags |-> newtags,
         out  |-> IF vocab = {} THEN Raised("ValueError")
                  ELSE Returned(corpus[ArgMax(scores)].original)]

\* one call of summarise on the instance
CosineCall(s, query) ==
    /\ calls < MaxCalls
    /\ Len(tags) + Len(s) <= MaxTags
    /\ \E r \in {summarise(tags, s, query)} :
          /\ tags' = r.tags
          /\ cout' = r.out
    /\ calls'  = calls + 1
    /\ cdoc'   = s
    /\ cquery' = query
    /\ pdoc'   = cdoc
    /\ pquery' = cquery
    /\ pout'   = cout
    /\ UNCHANGED <<insightVars, sentenceVars, utilVars>>

Summarise ==
    \E s \in SeqUpTo(Segments, MaxTags - Len(tags)), query \in CosineQueries :
        CosineCall(s, query)

InsightIdle ==
    /\ pc = "idle"
    /\ iquery = <<>>
    /\ urls = <<>>
    /\ ui = 0
    /\ soup = <<>>
    /\ summary_list = <<>>
    /\ fetched = <<>>
    /\ result = NoOutcome
    /\ errlog = <<>>

\* CosineSummariser.__init__
CosineFresh ==
    /\ tags = <<>>
    /\ calls = 0
    /\ cdoc = <<>>
    /\ cquery = <<>>
    /\ cout = NoOutcome
    /\ pdoc = <<>>
    /\ pquery = <<>>
    /\ pout = NoOutcome

InitCosine == CosineFresh /\ InsightIdle /\ SentenceIdle /\ UtilIdle

NextCosine == Summarise

SpecCosine == InitCosine /\ [][NextCosine]_vars

--------------------------------------------------------------------------
(* TextInsight.get with GoogleSearcher, SimpleWebScraper, CosineSummariser *)

Urls == {"mock://aurl.com", "mock://myurl.com", "mock://anyurl.com",
         "mock://down.com"}

\* The pages behind the urls: the soup of the page, or no page at all when
\* the response has an error status.
HttpError == {"mock://down.com"}

Web(url) ==
    CASE url = "mock://aurl.com"   -> << <<"web">>, <<"Render", "42", "web">> >>
      [] url = "mock://myurl.com"  -> << >>
      [] url = "mock://anyurl.com" -> << <<"render">> >>
      [] OTHER                     -> << >>

UrlLists == SeqUpTo(Urls, MaxUrls)

\* the query argument of get; <<>> is the empty string
InsightQueries == { <<>>, <<"Render">>, <<"web", "Render">> }

Summary(text, url) == [summary |-> text, url |-> url]

\* a mutant of NewSummaryList: the new Summary goes to the front
NewSummaryListFront(list, text, url) == <<Summary(text, url)>> \o list

\* summary_list.append(Summary(summary, url))
NewSummaryList(list, text, url) == Append(list, Summary(text, url))

\* a mutant of OnRaise: the exception is caught and what was collected so
\* far is returned
OnRaisePartial(e, list) == [pc |-> "returned", result |-> Returned(list)]

\* get has no try/except: an exception of a callee leaves get at once
OnRaise(e, list) == [pc |-> "raised", result |-> Raised(e)]

ErrorEntry(by, e) == [by |-> by, at |-> ui, err |-> e]

cosineGhost == <<calls, cdoc, cquery, cout, pdoc, pquery, pout>>

\* query = query.lower(); summary_list = []
GetBegin ==
    /\ pc = "start"
    /\ iquery' = LowerText(iquery)
    /\ summary_list' = <<>>
    /\ pc' = "search"
    /\ UNCHANGED <<urls, ui, soup, fetched, result, errlog, tags, cosineGhost, sentenceVars, utilVars>>

\* self.searcher.search(query) fills searcher.urls
SearchOk ==
    /\ pc = "search"
    /\ iquery # <<>>
    /\ \E us \in UrlLists : urls' = us
    /\ ui' = 0
    /\ pc' = "loop"
    /\ UNCHANGED <<iquery, soup, summary_list, fetched, result, errlog,
                   tags, cosineGhost, sentenceVars, utilVars>>

\* search raises: the assertion on an empty query, or the search function
SearchRaises ==
    /\ pc = "search"
    /\ \E e \in (IF iquery = <<>> THEN {"AssertionError"} ELSE {"SearchError"}) :
          LET r == OnRaise(e, summary_list)
          IN  /\ pc' = r.pc
              /\ result' = r.result
              /\ errlog' = Append(errlog, ErrorEntry("search", e))
    /\ UNCHANGED <<iquery, urls, ui, soup, summary_list, fetched,
                   tags, cosineGhost, sentenceVars, utilVars>>

\* soup = self.scraper.get_soup(url, getter), the response being a page
FetchOk ==
    /\ pc = "loop"
    /\ ui < Len(urls)
    /\ urls[ui + 1] \notin HttpError
    /\ fetched' = Append(fetched, urls[ui + 1])
    /\ soup' = Web(urls[ui + 1])
    /\ pc' = "summarise"
    /\ UNCHANGED <<iquery, urls, ui, summary_list, result, errlog,
                   tags, cosineGhost, sentenceVars, utilVars>>

\* get_soup raises: response.raise_for_status()
FetchRaises ==
    /\ pc = "loop"
    /\ ui < Len(urls)
    /\ urls[ui + 1] \in HttpError
    /\ fetched' = Append(fetched, urls[ui + 1])
    /\ LET r == OnRaise("HTTPError", summary_list)
       IN  /\ pc' = r.pc
           /\ result' = r.result
    /\ errlog' = Append(errlog, ErrorEntry("get_soup", "HTTPError"))
    /\ UNCHANGED <<iquery, urls, ui, soup, summary_list, tags, cosineGhost, sentenceVars, utilVars>>

\* summary = self.summariser.summarise(soup, query) returns;
\* summary_list.append(Summary(summary, url))
SummariseOk ==
    /\ pc = "summarise"
    /\ LET r == summarise(tags, soup, iquery)
       IN  /\ r.out.kind = "ok"
           /\ tags' = r.tags
           /\ summary_list' = NewSummaryList(summary_list, r.out.val, urls[ui + 1])
    /\ ui' = ui + 1
    /\ pc' = "loop"
    /\ UNCHANGED <<iquery, urls, soup, fetched, result, errlog, cosineGhost, sentenceVars, utilVars>>

\* summarise raises
SummariseRaises ==
    /\ pc = "summarise"
    /\ LET r == summarise(tags, soup, iquery)
       IN  /\ r.out.kind = "error"
           /\ tags' = r.tags
           /\ LET o == OnRaise(r.out.val[1], summary_list)
              IN  /\ pc' = o.pc
                  /\ result' = o.result
           /\ errlog' = Append(errlog, ErrorEntry("summarise", r.out.val[1]))
    /\ UNCHANGED <<iquery, urls, ui, soup, summary_list, fetched, cosineGhost, sentenceVars, utilVars>>

\* return summary_list
GetReturn ==
    /\ pc = "loop"
    /\ ui = Len(urls)
    /\ result' = Returned(summary_list)
    /\ pc' = "returned"
    /\ UNCHANGED <<iquery, urls, ui, soup, summary_list, fetched, errlog,
                   tags, cosineGhost, sentenceVars, utilVars>>

InitInsight ==
    /\ CosineFresh
    /\ pc = "start"
    /\ iquery \in InsightQueries
    /\ urls = <<>>
    /\ ui = 0
    /\ soup = <<>>
    /\ summary_list = <<>>
    /\ fetched = <<>>
    /\ result = NoOutcome
    /\ errlog = <<>>
    /\ SentenceIdle
    /\ UtilIdle

NextInsight ==
    \/ GetBegin
    \/ SearchOk
    \/ SearchRaises
    \/ FetchOk
    \/ FetchRaises
    \/ SummariseOk
    \/ SummariseRaises
    \/ GetReturn

SpecInsight == InitInsight /\ [][NextInsight]_vars

InitSentence ==
    /\ CosineFresh
    /\ InsightIdle
    /\ SentenceNew
    /\ UtilIdle
    /\ pre \in 0..MaxPre
    /\ post \in 0..MaxPost

NextSentence ==
    \/ SCall
    \/ SBeginSentence
    \/ SMatchFirst
    \/ SMatchInWindow
    \/ SAppendTrailing
    \/ SSkip
    \/ SEndSentence
    \/ SReturn

SpecSentence == InitSentence /\ [][NextSentence]_vars

--------------------------------------------------------------------------
(* compare_version_strings *)

\* The components a version string can hold, each as its characters.
Components ==
    { <<"0">>, <<"0", "0">>, <<"1">>, <<"0", "1">>, <<"2">>, <<"1", "0">>,
      <<"-", "1">>, <<"-", "0">> }

\* The lists str.split yields, which are never empty.
Versions == SeqUpTo(Components, MaxComps) \ {<<>>}

DigitVal(ch) == CASE ch = "0" -> 0 [] ch = "1" -> 1 [] ch = "2" -> 2

\* the value of a run of digits
RECURSIVE DigitsVal(_)
DigitsVal(chars) ==
    IF chars = <<>> THEN 0
    ELSE 10 * DigitsVal(SubSeq(chars, 1, Len(chars) - 1)) + DigitVal(chars[Len(chars)])

\* int(v) for a component v: an optional sign and digits
IntOf(v) == IF v[1] = "-" THEN 0 - DigitsVal(Tail(v)) ELSE DigitsVal(v)

\* a mutant of PadTo: the list is left as it is
PadToNone(mine, other) == mine

\* mine += [0] * max(0, len(other) - len(mine))
PadTo(mine, other) ==
    mine \o [k \in 1..Max(0, Len(other) - Len(mine)) |-> 0]

\* for v1, v2 in zip(versions_1, versions_2), from the k-th pair on
RECURSIVE ZipCompare(_, _, _)
ZipCompare(versions_1, versions_2, k) ==
    IF k > Len(versions_1) \/ k > Len(versions_2) THEN 0
    ELSE IF versions_1[k] > versions_2[k] THEN 1
    ELSE IF versions_2[k] > versions_1[k] THEN -1
    ELSE ZipCompare(versions_1, versions_2, k + 1)

VReturned(n) == [kind |-> "ok", val |-> n]
VRaised == [kind |-> "ValueError", val |-> 0]

\* compare_version_strings on the two split lists
compare_version_strings(version_str1, version_str2) ==
    LET ints_1     == [k \in DOMAIN version_str1 |-> IntOf(version_str1[k])]
        ints_2     == [k \in DOMAIN version_str2 |-> IntOf(version_str2[k])]
        versions_1 == PadTo(ints_1, ints_2)
        versions_2 == PadTo(ints_2, versions_1)
    IN  IF \/ \E k \in DOMAIN versions_1 : versions_1[k] < 0
           \/ \E k \in DOMAIN versions_2 : versions_2[k] < 0
        THEN VRaised
        ELSE VReturned(ZipCompare(versions_1, versions_2, 1))

\* the two strings are compared, in both orders
VCompare ==
    /\ vres.kind = "none"
    /\ vres' = compare_version_strings(va, vb)
    /\ vrev' = compare_version_strings(vb, va)
    /\ UNCHANGED <<va, vb, largs, lres>>
    /\ UNCHANGED <<cosineVars, insightVars, sentenceVars>>

InitVersion ==
    /\ CosineFresh
    /\ InsightIdle
    /\ SentenceIdle
    /\ va \in Versions
    /\ vb \in Versions
    /\ vres = [kind |-> "none", val |-> 0]
    /\ vrev = [kind |-> "none", val |-> 0]
    /\ largs = <<>>
    /\ lres = "none"

NextVersion == VCompare

SpecVersion == InitVersion /\ [][NextVersion]_vars

--------------------------------------------------------------------------
(* Line, two_lines_overlap, lines_overlap *)

\* The argument pairs Line accepts: it raises RuntimeError on x1 = x2.
LineArgs == {a \in (0..MaxCoord) \X (0..MaxCoord) : a[1] # a[2]}

\* Line.__init__: x1 is the lower end point
Line(x1, x2) == IF x1 < x2 THEN [x1 |-> x1, x2 |-> x2] ELSE [x1 |-> x2, x2 |-> x1]

\* Line.__lt__
LineLt(line, other) == line.x1 < other.x1

\* two_lines_overlap
two_lines_overlap(line1, line2) ==
    LET left  == Max(line1.x1, line2.x1)
        right == IF line1.x2 <= line2.x2 THEN line1.x2 ELSE line2.x2
    IN  left <= right

\* sorted(): stable, a line goes behind every line that is not greater
RECURSIVE Insert(_, _)
Insert(sorted_lines, line) ==
    IF sorted_lines = <<>> THEN <<line>>
    ELSE IF LineLt(line, sorted_lines[Len(sorted_lines)])
         THEN Append(Insert(SubSeq(sorted_lines, 1, Len(sorted_lines) - 1), line),
                     sorted_lines[Len(sorted_lines)])
         ELSE Append(sorted_lines, line)

RECURSIVE Sorted(_)
Sorted(lines) ==
    IF lines = <<>> THEN <<>>
    ELSE Insert(Sorted(SubSeq(lines, 1, Len(lines) - 1)), lines[Len(lines)])

\* the loop of lines_overlap from the 0-based index i on: True on the first
\* neighbours that touch, False on the IndexError of the last index, None
\* when range(len(sorted_lines)) is exhausted
RECURSIVE OverlapLoop(_, _)
OverlapLoop(sorted_lines, i) ==
    IF i >= Len(sorted_lines) THEN "None"
    ELSE IF i + 2 > Len(sorted_lines) THEN "False"
    ELSE IF sorted_lines[i + 1].x2 >= sorted_lines[i + 2].x1 THEN "True"
    ELSE OverlapLoop(sorted_lines, i + 1)

lines_overlap(lines) == OverlapLoop(Sorted(lines), 0)

\* the Line objects built from the arguments
LinesOf(args) == [k \in DOMAIN args |-> Line(args[k][1], args[k][2])]

\* lines_overlap(*lines)
LOverlap ==
    /\ lres = "none"
    /\ lres' = lines_overlap(LinesOf(largs))
    /\ UNCHANGED <<va, vb, vres, vrev, largs>>
    /\ UNCHANGED <<cosineVars, insightVars, sentenceVars>>

InitLines ==
    /\ CosineFresh
    /\ InsightIdle
    /\ SentenceIdle
    /\ va = <<>>
    /\ vb = <<>>
    /\ vres = [kind |-> "none", val |-> 0]
    /\ vrev = [kind |-> "none", val |-> 0]
    /\ largs \in SeqUpTo(LineArgs, MaxLines)
    /\ lres = "none"

NextLines == LOverlap

SpecLines == InitLines /\ [][NextLines]_vars

--------------------------------------------------------------------------
(* Claims about CosineSummariser (SpecCosine) *)

\* the score of one tag of a soup against the query, in that soup's own
\* vector space
DocScore(s, i, query) ==
    Score(preprocess(LowerText(s[i])), preprocess(query),
          Vocabulary([k \in DOMAIN s |-> preprocess(LowerText(s[k]))]))

\* C2: every call of summarise with a non-empty soup and a non-empty query
\* returns one tag, and that tag is a tag of the soup passed to that call.
C2_ResultIsTagOfOwnSoup ==
    (calls >= 1 /\ cdoc # <<>> /\ cquery # <<>>)
        => (cout.kind = "ok" /\ cout.val \in Range(cdoc))

\* C3: every call of summarise with a soup that has no tag ends in an
\* error, whatever the instance summarised before.
C3_EmptySoupRaises ==
    (calls >= 1 /\ cdoc = <<>>) => cout.kind = "error"

\* C5: the tag summarise returns is the tag of the soup with the highest
\* score, and among equal highest scores the first in document order.
C5_StableArgmaxOfSoup ==
    (calls >= 1 /\ cout.kind = "ok")
        => \E i \in DOMAIN cdoc :
              /\ cout.val = cdoc[i]
              /\ \A j \in DOMAIN cdoc :
                    ~Greater(DocScore(cdoc, j, cquery), DocScore(cdoc, i, cquery))
              /\ \A j \in DOMAIN cdoc :
                    j < i => Greater(DocScore(cdoc, i, cquery),
                                     DocScore(cdoc, j, cquery))

--------------------------------------------------------------------------
(* Claims about TextInsight.get (SpecInsight) *)

\* C1: when get returns, its result holds exactly one Summary per url of
\* searcher.urls, in the order of the urls, and each url was fetched
\* exactly once, duplicates included.
C1_OneSummaryPerUrlInOrder ==
    (pc = "returned" /\ errlog = <<>>)
        => /\ result.kind = "ok"
           /\ Len(result.val) = Len(urls)
           /\ \A i \in DOMAIN urls : result.val[i].url = urls[i]
           /\ fetched = urls

\* C1: get has returned for three urls, one of them twice.
C1_Witness ==
    /\ pc = "returned"
    /\ urls = <<"mock://aurl.com", "mock://anyurl.com", "mock://aurl.com">>
    /\ Len(result.val) = 3

\* C4: once a callee has raised, the caller has that very exception and no
\* list; nothing was fetched for a later url or fetched again, nothing was
\* summarised for the failing url or a later one, there was only that one
\* exception, and an exception of search came before any fetch.
C4_FirstErrorPropagates ==
    errlog # <<>>
        => /\ Len(errlog) = 1
           /\ pc = "raised"
           /\ result = Raised(errlog[1].err)
           /\ fetched = SubSeq(urls, 1, Len(fetched))
           /\ errlog[1].by = "search" => fetched = <<>>
           /\ errlog[1].by = "get_soup" => Len(fetched) = errlog[1].at + 1
           /\ errlog[1].by = "summarise" => Len(fetched) = errlog[1].at + 1
           /\ Len(summary_list) = errlog[1].at

\* C4: the fetch of the third url has raised after two urls were done.
C4_Witness ==
    /\ pc = "raised"
    /\ Len(urls) = 3
    /\ errlog = <<[by |-> "get_soup", at |-> 2, err |-> "HTTPError"]>>
    /\ Len(summary_list) = 2

--------------------------------------------------------------------------
(* Claims about SentenceSummariser (SpecSentence) *)

\* 0-based indices of the words of a sentence that are query tokens
MatchIdx(tokens, qt) == {k \in 0..(Len(tokens) - 1) : tokens[k + 1] \in Range(qt)}

Min(a, b) == IF a <= b THEN a ELSE b

\* the word loop of the current sentence is exhausted
ScanDone == spc = "scan" /\ wi = Len(words)

\* what the current sentence has added to self.summary
Added == SubSeq(summary, startlen + 1, Len(summary))
AddedOrigin == SubSeq(origin, startlen + 1, Len(origin))

\* C7: a sentence whose only query token is at index i adds exactly the
\* marker, the tokens at max(i - pre, 0) .. i-1, the token at i and the
\* next min(pos, tokens after i) tokens.
C7_OneMatchWindow ==
    ScanDone =>
        \A i \in MatchIdx(words, query_tokens) :
            MatchIdx(words, query_tokens) = {i} =>
                LET lo == Max(i - pre, 0)
                    hi == i + Min(post, Len(words) - 1 - i)
                    n  == hi - lo + 1
                IN  /\ Added = <<Marker>> \o [k \in 1..n |-> words[lo + k]]
                    /\ AddedOrigin = << <<si, -1>> >> \o [k \in 1..n |-> <<si, lo + k - 1>>]

\* C7: the first sentence, matched at its last word only, is scanned and
\* the window before the match left out the first word.
C7_Witness ==
    /\ ScanDone
    /\ si = 0
    /\ pre = 1
    /\ words = <<"x", "x", "k">>
    /\ "k" \in Range(query_tokens)
    /\ summary = <<Marker, "x", "k">>

\* C8: while a sentence without any query token is scanned, self.summary
\* does not change, whatever was scanned before.
C8_NoMatchNoChange ==
    [][(spc = "scan" /\ MatchIdx(words, query_tokens) = {}) => summary' = summary]_vars

\* C8: the second sentence has no query token and is scanned to its end,
\* the first one having ended with its trailing counter at 2.
C8_Witness ==
    /\ ScanDone
    /\ si = 1
    /\ post = 2
    /\ sentences = << <<"k">>, <<"x", "x">> >>
    /\ "k" \in Range(query_tokens)
    /\ summary = <<Marker, "k">>

\* C9: two query tokens of a sentence at indices i < j with
\* j - i <= self.pos: the summary holds the tokens i, i+1, .., j of the
\* sentence one after the other, no marker in between.
C9_ContinuousRun ==
    ScanDone =>
        \A i, j \in MatchIdx(words, query_tokens) :
            (i < j /\ j - i <= post) =>
                \E k \in (startlen + 1)..Len(origin) :
                    /\ k + (j - i) <= Len(origin)
                    /\ \A t \in 0..(j - i) :
                          /\ origin[k + t] = <<si, i + t>>
                          /\ summary[k + t] = words[i + t + 1]

\* C9: a sentence with query tokens at indices 0 and 2 and self.pos = 2 is
\* scanned.
C9_Witness ==
    /\ ScanDone
    /\ post = 2
    /\ words = <<"k", "x", "k">>
    /\ MatchIdx(words, query_tokens) = {0, 2}
    /\ Added = <<Marker, "k", "x", "k">>

\* a pass through the loop body for a query token with pos > 0
InWindowStep == spc = "scan" /\ IsMatch /\ pos > 0 /\ wi' = wi + 1

\* the markers the current sentence has added
Markers == {k \in (startlen + 1)..Len(origin) : origin[k] = <<si, -1>>}

\* a word of the texts that is no query token
NonMatch == CHOOSE w \in DocWords : w \notin Range(query_tokens)

\* the scan of the sentence of the same length with the match at j removed
OneMatch(j) ==
    ScanSentence([summary |-> <<>>, origin |-> <<>>, pos |-> 0],
                 [words EXCEPT ![j + 1] = NonMatch], si, query_tokens, pre, post)

C10_MoreRetained ==
    ScanDone =>
        \A i, j \in MatchIdx(words, query_tokens) :
            (/\ MatchIdx(words, query_tokens) = {i, j}
             /\ i < j
             /\ Cardinality(Markers) = 1) =>
                LET one == Len(OneMatch(j).summary)
                    two == Len(Added)
                IN  /\ two >= one
                    /\ (i + post < Len(words) - 1) => two > one

\* C10: a query token met with pos > 0 sets pos to (pos + self.pos) * 2,
\* which is more than pos was; and a sentence with a second match inside
\* the window adds at least as many tokens to the summary as the sentence
\* of the same length without the second match, and more when the window
\* of that one ends before the sentence does.
C10_Escalation ==
    /\ [][InWindowStep => (pos' = (pos + post) * 2 /\ pos' > pos)]_vars
    /\ []C10_MoreRetained

\* C10: "k k x" with self.pos = 1 is scanned: the second k came with pos = 1
\* and the x was kept, which "k x x" does not keep.
C10_Witness ==
    /\ ScanDone
    /\ post = 1
    /\ words = <<"k", "k", "x">>
    /\ MatchIdx(words, query_tokens) = {0, 1}
    /\ Added = <<Marker, "k", "k", "x">>
    /\ Len(OneMatch(1).summary) = 3
    /\ pos = 3

\* a pass through the loop body for a word that is no query token
NonMatchStep == spc = "scan" /\ wi < Len(words) /\ ~IsMatch /\ wi' = wi + 1

\* C13: pos is 0 when the scan of a sentence starts, it is never negative,
\* a word that is no query token takes exactly 1 off when it is appended
\* and leaves pos alone when it is skipped.
C13_Counter ==
    /\ []((spc = "scan" /\ wi = 0) => pos = 0)
    /\ [](pos >= 0)
    /\ [][NonMatchStep =>
            IF summary' # summary
            THEN summary' = Append(summary, words[wi + 1]) /\ pos' = pos - 1
            ELSE pos' = pos]_vars

\* C13: "k x x" with self.pos = 1 is scanned: the first x was appended and
\* took pos from 1 to 0, the second x was skipped.
C13_Witness ==
    /\ ScanDone
    /\ post = 1
    /\ words = <<"k", "x", "x">>
    /\ "k" \in Range(query_tokens)
    /\ Added = <<Marker, "k", "x">>
    /\ pos = 0

\* the query tokens of the current sentence the scan has passed
MatchesPassed == {k \in MatchIdx(words, query_tokens) : k < wi}

\* no entry of the current sentence occurs twice in origin
NoTokenTwice ==
    \A a, b \in (startlen + 1)..Len(origin) : a # b => origin[a] # origin[b]

\* the number of markers in a summary
MarkerCount(o) == Cardinality({k \in DOMAIN o : o[k][2] = -1})

\* a pass through the loop body for a query token
MatchStep == spc = "scan" /\ IsMatch /\ wi' = wi + 1

\* C14 as stated: pos is 0 at a query token exactly when it is the first
\* query token of its sentence; a sentence gets at most one marker and no
\* token of it is added twice.
C14_ZeroOnlyAtFirstMatch ==
    /\ (spc = "scan" /\ IsMatch) => (pos = 0 <=> MatchesPassed = {})
    /\ spc = "scan" => (Cardinality(Markers) <= 1 /\ NoTokenTwice)

\* C14 amended: pos is 0 at the first query token of a sentence (and may be
\* 0 at a later one); the marker is added at the query tokens met with
\* pos = 0 and at no other word, so at most once per query token; and in a
\* sentence with a single marker no token is added twice.
C14_MarkerPerZeroMatch ==
    /\ []((spc = "scan" /\ IsMatch /\ MatchesPassed = {}) => pos = 0)
    /\ [](spc = "scan" => Cardinality(Markers) <= Cardinality(MatchesPassed))
    /\ []((spc = "scan" /\ Cardinality(Markers) <= 1) => NoTokenTwice)
    /\ [][MatchStep =>
            MarkerCount(origin') = MarkerCount(origin) + (IF pos = 0 THEN 1 ELSE 0)]_vars
    /\ [][NonMatchStep => MarkerCount(origin') = MarkerCount(origin)]_vars

\* C14: "k x k" with self.pre = 1 and self.pos = 1 is scanned: the second k
\* came with pos = 0, brought a second marker and the x a second time.
C14_Witness ==
    /\ ScanDone
    /\ pre = 1
    /\ post = 1
    /\ words = <<"k", "x", "k">>
    /\ MatchIdx(words, query_tokens) = {0, 2}
    /\ Added = <<Marker, "k", "x", Marker, "x", "k">>

--------------------------------------------------------------------------
(* Claims about compare_version_strings (SpecVersion) *)

\* the integer a component stands for, sign and leading zeros read off
CompValue(v) ==
    LET digits == IF v[1] = "-" THEN Tail(v) ELSE v
        mag    == IF digits = <<"1", "0">> THEN 10
                  ELSE DigitVal(digits[Len(digits)])
    IN  IF v[1] = "-" THEN 0 - mag ELSE mag

\* the k-th integer of a version, 0 beyond its end
At(version, k) == IF k <= Len(version) THEN CompValue(version[k]) ELSE 0

\* the component-wise comparison of the zero-padded integer sequences
Lexicographic(a, b) ==
    LET n    == Max(Len(a), Len(b))
        diff == {k \in 1..n : At(a, k) # At(b, k)}
    IN  IF diff = {} THEN 0
        ELSE LET k == CHOOSE x \in diff : \A y \in diff : x <= y
             IN  IF At(a, k) > At(b, k) THEN 1 ELSE -1

\* the component with one more zero in front of its digits
LeadingZero(v) == IF v[1] = "-" THEN <<"-", "0">> \o Tail(v) ELSE <<"0">> \o v

HasNegative(version) == \E k \in DOMAIN version : CompValue(version[k]) < 0

\* C11: with non-negative components only, the result is 1, -1 or 0 as the
\* component-wise comparison of the zero-padded integer sequences says; a
\* leading zero in a component or a trailing zero component changes
\* nothing; the result for (b, a) is the negated one; and a negative
\* component in either string gives ValueError.
C11_VersionOrder ==
    vres.kind # "none" =>
        IF HasNegative(va) \/ HasNegative(vb)
        THEN vres = VRaised /\ vrev = VRaised
        ELSE /\ vres = VReturned(Lexicographic(va, vb))
             /\ vrev = VReturned(0 - vres.val)
             /\ compare_version_strings(Append(va, <<"0">>), vb) = vres
             /\ compare_version_strings(va, Append(vb, <<"0", "0">>)) = vres
             /\ compare_version_strings([va EXCEPT ![1] = LeadingZero(@)], vb) = vres

\* C11: "10.0" against "2" has given 1 and "2" against "10.0" has given -1.
C11_Witness ==
    /\ va = << <<"1", "0">>, <<"0">> >>
    /\ vb = << <<"2">> >>
    /\ vres = VReturned(1)
    /\ vrev = VReturned(-1)

--------------------------------------------------------------------------
(* Claims about lines_overlap (SpecLines) *)

\* some two distinct lines of the collection overlap
SomePairOverlaps ==
    \E i, j \in DOMAIN largs :
        /\ i # j
        /\ two_lines_overlap(LinesOf(largs)[i], LinesOf(largs)[j])

\* C12: for every collection of lines, none and one included, lines_overlap
\* returns True if some two distinct lines overlap as two_lines_overlap
\* says, and False if no two do.
C12_OverlapIffSomePair ==
    lres # "none" => lres = (IF SomePairOverlaps THEN "True" ELSE "False")

====
